---- MODULE Spec2Model ----
(***************************************************************************)
(* Model of changesets_fetcher.athena.AthenaQueryRunner: query submission  *)
(* (run_query) and the polling loop that waits for the tracked executions  *)
(* (wait_for_queries), against a remote engine that moves executions       *)
(* through their lifecycle on its own.                                     *)
(*                                                                         *)
(* The program is single threaded: one call runs at a time (pc = "idle"    *)
(* between calls).  The remote engine runs concurrently with it.           *)
(* Durations are counted in units of 1/64 second, in which every value the *)
(* backoff can take is an integer.                                         *)
(*                                                                         *)
(* Also modelled: partition registration (add_partitions_with_glue and     *)
(* _list_partitions_from_s3) against the storage listing and the catalog,  *)
(* the composition of a query with its prefix and suffix in both runners,  *)
(* and load_query_from_path of changesets_fetcher.utils.  Python str       *)
(* values are TLA+ strings.                                                *)
(***************************************************************************)
EXTENDS Integers, Sequences, FiniteSets, TLC

\* ---------------------------------------------------------------- bounds
Runners == {"r1", "r2"}
Names == {"a", "b"}
MaxExec == 2
MaxSleeps == 2
MaxBackoffSleeps == 8
MaxChildren == 2
MaxBatches == 2
MaxLines == 4
MaxDuckQueries == 3

\* ------------------------------------------------------ program constants
Unit == 64
initial_interval == 1 * Unit
max_interval == 10 * Unit
backoff_num == 3
backoff_den == 2
GiB == 1073741824
BatchSize == 100

None == 0
ExecIds == 1..MaxExec

TerminalFailure == {"FAILED", "CANCELLED"}
Terminal == {"SUCCEEDED"} \cup TerminalFailure

\* Value standing for a key the engine left out of "Statistics".
Absent == -1
NoStatistics == [present |-> FALSE, EngineExecutionTimeInMillis |-> Absent,
                 DataScannedInBytes |-> Absent]
StatsChoices ==
    { NoStatistics,
      [present |-> TRUE, EngineExecutionTimeInMillis |-> 1500,
       DataScannedInBytes |-> Absent],
      [present |-> TRUE, EngineExecutionTimeInMillis |-> 250,
       DataScannedInBytes |-> 7] }

\* ----------------------------------------------- dict (insertion ordered)
\* A Python dict is a sequence of <<key, value>> pairs with distinct keys.
RECURSIVE DictIndex(_, _)
DictIndex(d, k) ==
    IF d = <<>> THEN 0
    ELSE IF d[Len(d)][1] = k /\ DictIndex(SubSeq(d, 1, Len(d) - 1), k) = 0
         THEN Len(d)
         ELSE DictIndex(SubSeq(d, 1, Len(d) - 1), k)

DictKeys(d) == { d[i][1] : i \in 1..Len(d) }
DictHas(d, k) == k \in DictKeys(d)
DictGet(d, k) == d[DictIndex(d, k)][2]

\* d[k] = v : an existing key keeps its position, a new key goes last.
DictSet(d, k, v) ==
    IF DictHas(d, k)
    THEN [d EXCEPT ![DictIndex(d, k)] = <<k, v>>]
    ELSE Append(d, <<k, v>>)

\* d.pop(k, None)
DictPop(d, k) ==
    IF DictHas(d, k)
    THEN SubSeq(d, 1, DictIndex(d, k) - 1) \o SubSeq(d, DictIndex(d, k) + 1, Len(d))
    ELSE d

Range(s) == { s[i] : i \in 1..Len(s) }
Min(x, y) == IF x <= y THEN x ELSE y

\* ------------------------------------------------------------- str methods
\* Python strings are TLA+ strings; Char(s, i) is s[i - 1].
Char(s, i) == SubSeq(s, i, i)
Whitespace == {" ", "\t", "\n", "\r"}

\* s.startswith(p)
StartsWith(s, p) == Len(s) >= Len(p) /\ SubSeq(s, 1, Len(p)) = p

\* s.find(sub) + 1: the position of the first occurrence, 0 when there is none.
Find(s, sub) ==
    LET hits == { i \in 1..(Len(s) - Len(sub) + 1) :
                     SubSeq(s, i, i + Len(sub) - 1) = sub }
    IN IF hits = {} THEN 0 ELSE CHOOSE i \in hits : \A j \in hits : i <= j
\* sub in s
Contains(s, sub) == Find(s, sub) # 0

\* s.replace(old, new, 1)
ReplaceFirst(s, old, new) ==
    IF Contains(s, old)
    THEN SubSeq(s, 1, Find(s, old) - 1) \o new
         \o SubSeq(s, Find(s, old) + Len(old), Len(s))
    ELSE s

\* s.split(sep, 1), for s that contains sep: <<before, after>>.
SplitOnce(s, sep) ==
    <<SubSeq(s, 1, Find(s, sep) - 1), SubSeq(s, Find(s, sep) + Len(sep), Len(s))>>

\* s.lstrip(chars), s.rstrip(chars), s.strip(chars); chars is a set.
RECURSIVE LStripChars(_, _)
LStripChars(s, chars) ==
    IF Len(s) > 0 /\ Char(s, 1) \in chars
    THEN LStripChars(SubSeq(s, 2, Len(s)), chars) ELSE s
RECURSIVE RStripChars(_, _)
RStripChars(s, chars) ==
    IF Len(s) > 0 /\ Char(s, Len(s)) \in chars
    THEN RStripChars(SubSeq(s, 1, Len(s) - 1), chars) ELSE s
StripChars(s, chars) == LStripChars(RStripChars(s, chars), chars)
\* s.strip()
Strip(s) == StripChars(s, Whitespace)

\* s.split(sep): the pieces between the occurrences of sep, as a sequence.
RECURSIVE Split(_, _)
Split(s, sep) ==
    IF Contains(s, sep)
    THEN <<SplitOnce(s, sep)[1]>> \o Split(SplitOnce(s, sep)[2], sep)
    ELSE <<s>>
\* sep.join(parts)
RECURSIVE Join(_, _)
Join(parts, sep) ==
    IF parts = <<>> THEN ""
    ELSE IF Len(parts) = 1 THEN parts[1]
    ELSE parts[1] \o sep \o Join(Tail(parts), sep)

\* '%.2f' % (num / den), in hundredths, rounding half up (the values the
\* engine reports here are never ties).
Fmt2(num, den) ==
    LET q == (num * 100) \div den
        r == (num * 100) % den
    IN IF r >= den - r THEN q + 1 ELSE q

\* One log record: names and nums are the values formatted into the line.
LogLine(level, kind, names, nums) ==
    [level |-> level, kind |-> kind, names |-> names, nums |-> nums]

\* ------------------------------------------------------------------ state
VARIABLES
    running_queries,  \* class attribute AthenaQueryRunner.running_queries
    engine,           \* remote engine: execution id -> state of the execution,
                      \* kept while the program holds the id
    next_id,          \* next execution id the engine hands out
    owner,            \* execution id -> runner whose run_query submitted it
    pc,               \* position of the running call ("idle" between calls)
    self,             \* the runner whose wait_for_queries is running
    total_queries,    \* wait_for_queries locals
    failed_queries,
    completed_stats,
    interval,
    items,            \* list(self.running_queries.items()) of the sweep
    idx,              \* position of the for loop in items
    sleeps,           \* durations passed to time.sleep in this wait
    fetches,          \* get_query_execution calls made in this wait
    seen,             \* <<name, id, statistics>> observed terminal in this wait
    batch,            \* names submitted since the last wait ended
    log,              \* log records of the current / last call
    outcome,          \* what the last finished call gave its caller
    args,             \* arguments of the add_partitions_with_glue call
    bucket,           \* bucket returned by _list_partitions_from_s3
    partitions,       \* (value, prefix) tuples it returned
    created,          \* add_partitions_with_glue's counter
    offset,           \* its loop variable i
    calls,            \* remote calls made by the current call, in order
    input,            \* arguments of the pure function under study
    result,           \* what it gave for them
    conn,             \* DuckDBQueries.conn: "none", "open" or "closed"
    pending           \* exception on its way out of the with-block, or ""

vars == <<running_queries, engine, next_id, owner, pc, self, total_queries,
          failed_queries, completed_stats, interval, items, idx, sleeps,
          fetches, seen, batch, log, outcome, args, bucket, partitions,
          created, offset, calls, input, result, conn, pending>>

glueVars == <<args, bucket, partitions, created, offset, calls>>
fnVars == <<input, result>>
duckVars == <<conn, pending>>

waitLocals == <<total_queries, failed_queries, completed_stats, interval,
                items, idx>>

NoRunner == "-"

Outcome(op, runner, name, kind, exc, retval, msg, submits) ==
    [op |-> op, runner |-> runner, name |-> name, kind |-> kind, exc |-> exc,
     retval |-> retval, msg |-> msg, submits |-> submits]

NoOutcome == Outcome("none", NoRunner, "", "none", "", None, <<>>, 0)

\* No call of add_partitions_with_glue is active; no pure function is applied.
NoArgs == [table_name |-> "", s3_prefix |-> "", partition_key |-> "",
           database |-> ""]
NoInput == [fn |-> "none"]
NoResult == [kind |-> "none"]

\* The program after construction, with nothing submitted and no call made.
InitProgram ==
    /\ running_queries = <<>>
    /\ engine = [e \in ExecIds |-> "NONE"]
    /\ next_id = 1
    /\ owner = [e \in ExecIds |-> NoRunner]
    /\ pc = "idle"
    /\ self = NoRunner
    /\ total_queries = 0
    /\ failed_queries = <<>>
    /\ completed_stats = <<>>
    /\ interval = 0
    /\ items = <<>>
    /\ idx = 0
    /\ sleeps = <<>>
    /\ fetches = 0
    /\ seen = {}
    /\ batch = {}
    /\ log = <<>>
    /\ outcome = NoOutcome
    /\ args = NoArgs
    /\ bucket = ""
    /\ partitions = <<>>
    /\ created = 0
    /\ offset = 0
    /\ calls = <<>>
    /\ conn = "none"
    /\ pending = ""

Init == InitProgram /\ input = NoInput /\ result = NoResult

\* ----------------------------------------------------------- remote engine
\* An execution moves QUEUED -> RUNNING -> SUCCEEDED | FAILED | CANCELLED on
\* the engine's side, at any moment; a terminal state never changes.
EngineStep(e) ==
    /\ \/ /\ engine[e] = "QUEUED"
          /\ \E s \in {"RUNNING", "CANCELLED"} : engine' = [engine EXCEPT ![e] = s]
       \/ /\ engine[e] = "RUNNING"
          /\ \E s \in Terminal : engine' = [engine EXCEPT ![e] = s]
    /\ UNCHANGED <<glueVars, fnVars, duckVars, running_queries, next_id, owner, pc, self, waitLocals,
                   sleeps, fetches, seen, batch, log, outcome>>

\* ---------------------------------------------------------------- run_query
\* Mutant: a second submission of a name is tracked beside the first.
Registered_KeepBoth(rq, query_name, id) == Append(rq, <<query_name, id>>)
\* Mutant: a name that is already tracked keeps its old execution id.
Registered_KeepFirst(rq, query_name, id) ==
    IF DictHas(rq, query_name) THEN rq ELSE Append(rq, <<query_name, id>>)
\* self.running_queries[query_name] = query_execution_id
Registered(rq, query_name, id) == DictSet(rq, query_name, id)
\* "except ClientError: logger.error(...); raise", after the one call of
\* start_query_execution.
RejectedOutcome(r, query_name) ==
    Outcome("run_query", r, query_name, "raised", "ClientError", None, <<>>, 1)

\* given: which of query / query_path the caller passed; accepted: whether
\* start_query_execution takes the submission or raises ClientError.
RunQuery(r, query_name, given, accepted) ==
    /\ pc = "idle"
    /\ IF given = "neither"
       THEN /\ outcome' = Outcome("run_query", r, query_name, "raised",
                                  "ValueError", None, <<>>, 0)
            /\ UNCHANGED <<running_queries, engine, next_id, owner, batch>>
       ELSE IF ~accepted
       THEN /\ outcome' = RejectedOutcome(r, query_name)
            /\ UNCHANGED <<running_queries, engine, next_id, owner, batch>>
       ELSE /\ next_id <= MaxExec
            /\ engine' = [engine EXCEPT ![next_id] = "QUEUED"]
            /\ owner' = [owner EXCEPT ![next_id] = r]
            /\ next_id' = next_id + 1
            /\ running_queries' = Registered(running_queries, query_name, next_id)
            /\ batch' = batch \cup {query_name}
            /\ outcome' = Outcome("run_query", r, query_name, "returned",
                                  "", next_id, <<>>, 1)
    /\ pc' = "done"
    /\ UNCHANGED <<glueVars, fnVars, duckVars, self, waitLocals, sleeps, fetches, seen, log>>

\* --------------------------------------------------------- wait_for_queries
WaitPcs == {"while", "for", "after_sweep", "summary", "done"}

\* Mutant: the empty batch returns without its warning.
EmptyBatchLog_Silent == <<>>
\* Mutant: the empty batch falls through to the polling loop.
EmptyBatchNextPc_FallThrough == "while"
\* "if not self.running_queries: logger.warning(...); return"
EmptyBatchLog == <<LogLine("warning", "no_queries", <<>>, <<>>)>>
EmptyBatchOutcome(r) ==
    Outcome("wait_for_queries", r, "", "returned", "", None, <<>>, 0)
EmptyBatchNextPc == "done"

\* stats = response["QueryExecution"].get("Statistics", {}) and the two
\* What the response held for the program to read: its "Statistics" when the
\* state is SUCCEEDED; the other branches never look at them.
Reported(state, stats) == IF state = "SUCCEEDED" THEN stats ELSE NoStatistics
\* Mutant: a field the engine left out is taken as it is, with no default.
StatGet_NoDefault(stats, value) == value
\* float(stats.get(key, 0)) of completed_stats[query_name].
StatGet(stats, value) == IF stats.present /\ value # Absent THEN value ELSE 0
StatsRecord(stats) ==
    [execution_time_ms |-> StatGet(stats, stats.EngineExecutionTimeInMillis),
     data_scanned_bytes |-> StatGet(stats, stats.DataScannedInBytes)]

\* Mutant: a succeeded execution whose response holds no "Statistics" is
\* given no entry.
CompletedAfter_OnlyWithStatistics(cs, query_name, state, stats) ==
    IF state = "SUCCEEDED" /\ stats.present
    THEN DictSet(cs, query_name, StatsRecord(stats)) ELSE cs
\* Mutant: statistics are recorded for every terminal state.
CompletedAfter_AnyTerminal(cs, query_name, state, stats) ==
    IF state = "SUCCEEDED" \/ state \in TerminalFailure
    THEN DictSet(cs, query_name, StatsRecord(stats)) ELSE cs
\* Mutant: a cancelled execution is dropped without being recorded as failed.
FailedAfter_OnlyFailed(failed, query_name, state) ==
    IF state = "FAILED" THEN Append(failed, query_name) ELSE failed
\* The three branches of the status test, as the new value of each
\* collection after observing `state` for query_name.
CompletedAfter(cs, query_name, state, stats) ==
    IF state = "SUCCEEDED" THEN DictSet(cs, query_name, StatsRecord(stats)) ELSE cs
FailedAfter(failed, query_name, state) ==
    IF state \in TerminalFailure THEN Append(failed, query_name) ELSE failed
\* Mutant: only a succeeded execution is dropped from the tracked set.
TrackedAfter_KeepFailed(rq, query_name, state) ==
    IF state = "SUCCEEDED" THEN DictPop(rq, query_name) ELSE rq
TrackedAfter(rq, query_name, state) ==
    IF state = "SUCCEEDED" \/ state \in TerminalFailure
    THEN DictPop(rq, query_name) ELSE rq
FetchLog(query_name, state, id) ==
    IF state \in TerminalFailure
    THEN <<LogLine("error", state, <<query_name>>, <<id>>)>> ELSE <<>>

\* Mutant: the first failure observed ends the polling at once.
ForNextPc_AbortOnFailure(state, i, n) ==
    IF state \in TerminalFailure THEN "summary"
    ELSE IF i < n THEN "for" ELSE "after_sweep"
\* The for loop goes on to the next item, or leaves the sweep after the last.
ForNextPc(state, i, n) == IF i < n THEN "for" ELSE "after_sweep"

\* Mutant: the interval grows without the cap.
NextInterval_NoCap(i) == (i * backoff_num) \div backoff_den
\* Mutant: "if" for "while", a single sweep.
AfterSweepNextPc_SingleSweep == "summary"
\* "if self.running_queries:" after the sweep.
\* Mutant: the loop sleeps after every sweep.
SleepsAfterSweep_Always(rq) == TRUE
SleepsAfterSweep(rq) == rq # <<>>
\* interval = min(max_interval, interval * backoff)
NextInterval(i) == Min(max_interval, (i * backoff_num) \div backoff_den)
\* End of the while body: back to the loop test.
AfterSweepNextPc == "while"

\* The summary block: totals, one line per succeeded query, and the error
\* line naming the failed queries.
RECURSIVE StatsLines(_)
StatsLines(cs) ==
    IF cs = <<>> THEN <<>>
    ELSE <<LogLine("info", "stats", <<cs[1][1]>>,
                   <<Fmt2(cs[1][2].execution_time_ms, 1000),
                     Fmt2(cs[1][2].data_scanned_bytes, GiB)>>)>>
         \o StatsLines(Tail(cs))
\* Mutant: the per-query lines are skipped when a query failed.
SummaryLog_NoStatsOnFailure(total, failed, cs) ==
    <<LogLine("info", "summary", <<>>,
              <<total, total - Len(failed), Len(failed)>>)>>
    \o (IF failed # <<>>
        THEN <<LogLine("error", "failed_queries", failed, <<>>)>>
        ELSE StatsLines(cs))
\* Mutant: the aggregate failure is raised before anything is summarised.
SummaryLog_RaiseFirst(total, failed, cs) ==
    IF failed # <<>>
    THEN <<LogLine("error", "failed_queries", failed, <<>>)>>
    ELSE <<LogLine("info", "summary", <<>>, <<total, total, 0>>)>>
         \o StatsLines(cs)
SummaryLog(total, failed, cs) ==
    <<LogLine("info", "summary", <<>>,
              <<total, total - Len(failed), Len(failed)>>)>>
    \o StatsLines(cs)
    \o (IF failed # <<>>
        THEN <<LogLine("error", "failed_queries", failed, <<>>)>> ELSE <<>>)
\* raise Exception(f"{len(failed_queries)} queries failed"), or the end of
\* the function.
SummaryOutcome(r, failed) ==
    IF failed # <<>>
    THEN Outcome("wait_for_queries", r, "", "raised", "Exception", None,
                 <<ToString(Len(failed)), "queries", "failed">>, 0)
    ELSE Outcome("wait_for_queries", r, "", "returned", "", None, <<>>, 0)

\* Entry: the empty-batch return, or the initialisation of the locals.
WaitStart(r) ==
    /\ pc = "idle"
    /\ self' = r
    /\ sleeps' = <<>>
    /\ fetches' = 0
    /\ seen' = {}
    /\ items' = <<>>
    /\ idx' = 0
    /\ failed_queries' = <<>>
    /\ completed_stats' = <<>>
    /\ IF running_queries = <<>>
       THEN /\ log' = EmptyBatchLog
            /\ outcome' = EmptyBatchOutcome(r)
            /\ total_queries' = 0
            /\ interval' = 0
            /\ pc' = EmptyBatchNextPc
       ELSE /\ total_queries' = Len(running_queries)
            /\ log' = <<LogLine("info", "waiting", <<>>, <<Len(running_queries)>>)>>
            /\ interval' = initial_interval
            /\ pc' = "while"
            /\ UNCHANGED outcome
    /\ UNCHANGED <<glueVars, fnVars, duckVars, running_queries, engine, next_id, owner, batch>>

\* "while self.running_queries:" and the snapshot the for loop iterates.
\* Mutant: the loop gives up once the interval has reached its cap.
LoopContinues_Timeout(rq, wait) == rq # <<>> /\ wait < max_interval
\* The condition of the while loop: the truth value of the dict, whatever
\* the time already waited.
LoopContinues(rq, wait) == rq # <<>>
LoopTest ==
    /\ pc = "while"
    /\ IF LoopContinues(running_queries, interval)
       THEN /\ items' = running_queries
            /\ idx' = 1
            /\ pc' = "for"
       ELSE /\ pc' = "summary"
            /\ UNCHANGED <<items, idx>>
    /\ UNCHANGED <<glueVars, fnVars, duckVars, running_queries, engine, next_id, owner, self, total_queries,
                   failed_queries, completed_stats, interval, sleeps, fetches,
                   seen, batch, log, outcome>>

\* Mutant: the error of a status fetch is swallowed and the fetch retried.
FetchErrorNextPc_Retry == "for"
\* get_query_execution is called outside any try: its error leaves the
\* for loop, the while loop and the function.
FetchErrorNextPc == "done"

\* One iteration of the for loop: the status fetch of items[idx] and the
\* branch on its state.  ok = FALSE: get_query_execution raises, and the
\* error leaves wait_for_queries.  stats: the "Statistics" of the response
\* (read only for a SUCCEEDED execution).
\* count: the value of the ghost fetches after the call.
FetchStep(ok, stats, count) ==
    /\ pc = "for"
    /\ fetches' = count
    /\ LET query_name == items[idx][1]
           id == items[idx][2]
           state == engine[id]
       IN IF ~ok
          THEN /\ outcome' = Outcome("wait_for_queries", self, query_name,
                                     "raised", "ClientError", None, <<>>, 0)
               /\ pc' = FetchErrorNextPc
               /\ UNCHANGED <<running_queries, failed_queries, completed_stats,
                              idx, seen, log>>
          ELSE /\ completed_stats' =
                      CompletedAfter(completed_stats, query_name, state, stats)
               /\ failed_queries' = FailedAfter(failed_queries, query_name, state)
               /\ running_queries' = TrackedAfter(running_queries, query_name, state)
               /\ log' = log \o FetchLog(query_name, state, id)
               /\ seen' = IF state \in Terminal
                          THEN seen \cup {<<query_name, id, Reported(state, stats)>>}
                          ELSE seen
               /\ idx' = idx + 1
               /\ pc' = ForNextPc(state, idx, Len(items))
               /\ UNCHANGED outcome
    /\ UNCHANGED <<glueVars, fnVars, duckVars, engine, next_id, owner, self, total_queries, interval,
                   items, sleeps, batch>>

\* The iteration with every status fetch counted.
Fetch(ok, stats) == FetchStep(ok, stats, fetches + 1)

\* After the sweep: sleep and grow the interval if anything is still tracked.
\* slept: the value of the ghost sleeps after a sleep.
AfterSweepStep(slept) ==
    /\ pc = "after_sweep"
    /\ IF SleepsAfterSweep(running_queries)
       THEN /\ sleeps' = slept
            /\ interval' = NextInterval(interval)
       ELSE UNCHANGED <<sleeps, interval>>
    /\ pc' = AfterSweepNextPc
    /\ UNCHANGED <<glueVars, fnVars, duckVars, running_queries, engine, next_id, owner, self, total_queries,
                   failed_queries, completed_stats, items, idx, fetches, seen,
                   batch, log, outcome>>

\* The step with every sleep recorded; limit bounds the number of sleeps of
\* one wait in the model.
AfterSweep(limit) ==
    /\ SleepsAfterSweep(running_queries) => Len(sleeps) < limit
    /\ AfterSweepStep(Append(sleeps, interval))

\* The summary, then the aggregate failure or the normal return.
Summary ==
    /\ pc = "summary"
    /\ log' = log \o SummaryLog(total_queries, failed_queries, completed_stats)
    /\ outcome' = SummaryOutcome(self, failed_queries)
    /\ pc' = "done"
    /\ UNCHANGED <<glueVars, fnVars, duckVars, running_queries, engine, next_id, owner, self, waitLocals,
                   sleeps, fetches, seen, batch>>

\* The ids the program can still ask the engine about.
TrackedIds(rq) == { rq[i][2] : i \in 1..Len(rq) }

\* The call is over: the caller has its outcome, the locals are gone.  An
\* execution whose id is in running_queries no more can never be asked about
\* again: the model stops following it.
Return ==
    /\ pc = "done"
    /\ pc' = "idle"
    /\ self' = NoRunner
    /\ total_queries' = 0
    /\ failed_queries' = <<>>
    /\ completed_stats' = <<>>
    /\ interval' = 0
    /\ items' = <<>>
    /\ idx' = 0
    /\ sleeps' = <<>>
    /\ fetches' = 0
    /\ seen' = {}
    /\ log' = <<>>
    /\ outcome' = NoOutcome
    /\ batch' = IF outcome.op = "wait_for_queries" THEN {} ELSE batch
    /\ engine' = [e \in ExecIds |->
                    IF engine[e] = "NONE" \/ e \in TrackedIds(running_queries)
                    THEN engine[e] ELSE "RELEASED"]
    /\ owner' = [e \in ExecIds |->
                    IF e \in TrackedIds(running_queries) THEN owner[e] ELSE NoRunner]
    /\ args' = NoArgs
    /\ bucket' = ""
    /\ partitions' = <<>>
    /\ created' = 0
    /\ offset' = 0
    /\ calls' = <<>>
    /\ conn' = "none"
    /\ pending' = ""
    /\ UNCHANGED <<running_queries, next_id, fnVars>>

Next ==
    \/ \E e \in ExecIds : EngineStep(e)
    \/ \E r \in Runners, n \in Names, g \in {"query", "neither"}, a \in BOOLEAN :
          RunQuery(r, n, g, a)
    \/ \E r \in Runners : WaitStart(r)
    \/ LoopTest
    \/ \E ok \in BOOLEAN, st \in StatsChoices : Fetch(ok, st)
    \/ AfterSweep(MaxSleeps)
    \/ Summary
    \/ Return

Spec == Init /\ [][Next]_vars

\* The same program with one runner, every submission accepted and the
\* engine reporting no statistics, and room for a long wait: the behaviours
\* in which the backoff runs past its cap.
NextBackoff ==
    \/ \E e \in ExecIds : EngineStep(e)
    \/ \E n \in Names : RunQuery("r1", n, "query", TRUE)
    \/ WaitStart("r1")
    \/ LoopTest
    \/ \E ok \in BOOLEAN : Fetch(ok, NoStatistics)
    \/ AfterSweep(MaxBackoffSleeps)
    \/ Summary
    \/ Return

SpecBackoff == Init /\ [][NextBackoff]_vars

\* The same program followed for waits of any length: one runner, every
\* submission accepted, every status fetch answered, and the ghosts sleeps
\* and fetches left as they are, so that nothing in the model bounds the
\* number of sweeps.  The interpreter always takes the next step of a wait
\* it is in (time.sleep returns); the engine and the caller are free.
WaitProgress ==
    \/ LoopTest
    \/ FetchStep(TRUE, NoStatistics, fetches)
    \/ AfterSweepStep(sleeps)
    \/ Summary

NextTermination ==
    \/ \E e \in ExecIds : EngineStep(e)
    \/ \E n \in Names : RunQuery("r1", n, "query", TRUE)
    \/ WaitStart("r1")
    \/ WaitProgress
    \/ Return

SpecTermination == Init /\ [][NextTermination]_vars /\ WF_vars(WaitProgress)

\* ------------------------------------------------- _list_partitions_from_s3
\* self.database of each runner, as configured at construction.
Database(r) == IF r = "r1" THEN "db_one" ELSE "db_two"
\* database=None
NoDatabase == "None"

\* The two tests on s3_prefix: the message of the ValueError, "" when both pass.
ValidationError(s3_prefix) ==
    IF ~StartsWith(s3_prefix, "s3://")
    THEN "s3_prefix must be a full S3 URI (s3://bucket/path/)"
    ELSE IF ~Contains(ReplaceFirst(s3_prefix, "s3://", ""), "/")
    THEN "s3_prefix must include a path after the bucket name"
    ELSE ""
\* bucket, prefix = bucket_and_prefix.split("/", 1)
\* prefix = prefix.rstrip("/") + "/"
BucketOf(s3_prefix) == SplitOnce(ReplaceFirst(s3_prefix, "s3://", ""), "/")[1]
PrefixOf(s3_prefix) ==
    RStripChars(SplitOnce(ReplaceFirst(s3_prefix, "s3://", ""), "/")[2], {"/"})
    \o "/"

\* Mutant: a child is kept when its name starts with the key alone.
IsPartition_KeyOnly(remainder, partition_key) ==
    StartsWith(remainder, partition_key)
\* remainder.startswith(f"{partition_key}=")
IsPartition(remainder, partition_key) ==
    StartsWith(remainder, partition_key \o "=")
\* p[len(prefix):].strip("/")
Remainder(p, prefix) == StripChars(SubSeq(p, Len(prefix) + 1, Len(p)), {"/"})
\* The loop over common_prefixes: the (value, p) tuples, in order.
Discover(common_prefixes, prefix, partition_key) ==
    LET Kept(p) == IsPartition(Remainder(p, prefix), partition_key)
        kept == SelectSeq(common_prefixes, Kept)
    IN [k \in 1..Len(kept) |->
           <<SplitOnce(Remainder(kept[k], prefix), "=")[2], kept[k]>>]

\* What list_objects_v2 answers for Prefix=prefix, Delimiter="/": the
\* CommonPrefixes of the children `names`, in the order of the listing.
CommonPrefixes(prefix, names) ==
    [k \in 1..Len(names) |-> prefix \o names[k] \o "/"]

\* ------------------------------------------------- add_partitions_with_glue
\* The inputs of the model: arguments of the call, children of the listing.
S3Prefixes ==
    {"s3://bucket/path/", "s3://bucket/path", "s3://bucket/a/b/",
     "s3://bucket/", "s3://bucket", "bucket/path/", "http://bucket/path/", ""}
PartitionKeys == {"ds", "year"}
Databases == {NoDatabase, "db_other"}
\* Every prefix with the default key and database, and every key and
\* database with the prefix of the docstring.
GlueArgs ==
    [table_name : {"changesets"}, s3_prefix : S3Prefixes,
     partition_key : {"ds"}, database : {NoDatabase}]
    \cup [table_name : {"changesets"}, s3_prefix : {"s3://bucket/path/"},
          partition_key : PartitionKeys, database : Databases]
ChildNames ==
    {"ds=2024-01-01", "ds=2024-01-02", "other", "dsx=1", "ds=", "year=2024"}
RECURSIVE SeqsUpTo(_, _)
SeqsUpTo(S, n) ==
    IF n = 0 THEN {<<>>}
    ELSE SeqsUpTo(S, n - 1)
         \cup { Append(q, x) : q \in { t \in SeqsUpTo(S, n - 1) : Len(t) = n - 1 },
                               x \in S }
\* The listings of the model: every short one, the one of three children
\* with a stranger last, and long ones of partitions only, around the
\* multiples of the batch size.
ShortListings == SeqsUpTo(ChildNames, MaxChildren)
ExampleListing == <<"ds=2024-01-01", "ds=2024-01-02", "other">>
LongSizes ==
    {BatchSize, BatchSize + 1, MaxBatches * BatchSize, MaxBatches * BatchSize + 1}
LongListings ==
    { [k \in 1..n |-> key \o "=" \o ToString(k)] :
         n \in LongSizes, key \in PartitionKeys }
Listings == ShortListings \cup {ExampleListing} \cup LongListings

\* The loop of 261-272: Values and StorageDescriptor.Location of each input.
PartitionInputs(parts, bkt) ==
    [k \in 1..Len(parts) |->
        [Values |-> <<parts[k][1]>>,
         Location |-> "s3://" \o bkt \o "/" \o parts[k][2]]]

\* Mutant: the slice runs one element into the next batch.
BatchOf_Overlap(partition_inputs, i) ==
    SubSeq(partition_inputs, i + 1, Min(i + BatchSize + 1, Len(partition_inputs)))
\* partition_inputs[i : i + 100]
BatchOf(partition_inputs, i) ==
    SubSeq(partition_inputs, i + 1, Min(i + BatchSize, Len(partition_inputs)))

\* One entry of the response's "Errors".  detail: "none" (no ErrorDetail),
\* "empty" (ErrorDetail without ErrorMessage) or "message".
GlueError(entry, detail, message) ==
    [PartitionValues |-> entry.Values, detail |-> detail,
     ErrorMessage |-> message]
AlreadyExists == "AlreadyExistsException: Partition already exists."
InternalFailure == "InternalServiceException: An internal error occurred."
\* The "Errors" a response can hold for a batch, in the model: none; one
\* for each partition; an AlreadyExistsException followed by an error
\* without message; and, for a short batch, each kind of error alone.
ErrorChoices(chunk) ==
    {<<>>,
     [k \in 1..Len(chunk) |-> GlueError(chunk[k], "message", AlreadyExists)]}
    \cup (IF Len(chunk) < 2 THEN {}
          ELSE {<<GlueError(chunk[1], "message", AlreadyExists),
                  GlueError(chunk[2], "empty", "")>>})
    \cup (IF Len(chunk) > MaxChildren + 1 THEN {}
          ELSE {<<GlueError(chunk[1], "message", AlreadyExists)>>,
                <<GlueError(chunk[1], "message", InternalFailure)>>,
                <<GlueError(chunk[1], "none", "")>>})
\* err.get("ErrorDetail", {}).get("ErrorMessage", "Unknown")
MessageOf(err) == IF err.detail = "message" THEN err.ErrorMessage ELSE "Unknown"
\* The for loop over errors: one error line for each that is not an
\* AlreadyExistsException.
ErrorLog(errors) ==
    LET Logged(err) == ~Contains(MessageOf(err), "AlreadyExistsException")
        logged == SelectSeq(errors, Logged)
    IN [k \in 1..Len(logged) |->
           LogLine("error", "glue_partition_error",
                   logged[k].PartitionValues \o <<MessageOf(logged[k])>>, <<>>)]

\* created += len(batch) - len(errors)
CreatedAfter(n, chunk, errors) == n + Len(chunk) - Len(errors)
\* Mutant: the first batch that reports an error ends the loop.
AfterBatchPc_StopOnError(errors, i, n) ==
    IF errors = <<>> /\ i + BatchSize < n THEN "batch" ELSE "done"
\* range(0, len(partition_inputs), 100): another batch, or the return.
AfterBatchPc(errors, i, n) == IF i + BatchSize < n THEN "batch" ELSE "done"

\* Mutant: the listing is requested before the prefix is looked at.
CallsAtValidation_ListFirst(a) ==
    <<[api |-> "list_objects_v2", Bucket |-> "", Prefix |-> a.s3_prefix,
       Delimiter |-> "/", children |-> <<>>]>>
\* The remote calls made when the prefix is validated: none.
CallsAtValidation(a) == <<>>

GlueOutcome(r, kind, exc, retval, msg) ==
    Outcome("add_partitions_with_glue", r, "", kind, exc, retval, msg, 0)

\* Entry, and the two tests at the head of _list_partitions_from_s3.
GlueStart(r, a) ==
    /\ pc = "idle"
    /\ self' = r
    /\ args' = a
    /\ calls' = CallsAtValidation(a)
    /\ log' = <<>>
    /\ IF ValidationError(a.s3_prefix) # ""
       THEN /\ outcome' = GlueOutcome(r, "raised", "ValueError", None,
                                      <<ValidationError(a.s3_prefix)>>)
            /\ pc' = "done"
       ELSE /\ pc' = "list"
            /\ UNCHANGED outcome
    /\ UNCHANGED <<running_queries, engine, next_id, owner, waitLocals, sleeps,
                   fetches, seen, batch, bucket, partitions, created, offset,
                   fnVars, duckVars>>

\* The rest of _list_partitions_from_s3 and the test on its result.  ok =
\* FALSE: the listing raises.  names: the children the listing finds.
ListS3(ok, names) ==
    /\ pc = "list"
    /\ LET prefix == PrefixOf(args.s3_prefix)
           common_prefixes == CommonPrefixes(prefix, names)
           found == Discover(common_prefixes, prefix, args.partition_key)
       IN /\ calls' = Append(calls,
                 [api |-> "list_objects_v2", Bucket |-> BucketOf(args.s3_prefix),
                  Prefix |-> prefix, Delimiter |-> "/",
                  children |-> IF ok THEN names ELSE <<>>])
          /\ IF ~ok
             THEN /\ outcome' = GlueOutcome(self, "raised", "ClientError", None, <<>>)
                  /\ pc' = "done"
                  /\ UNCHANGED <<bucket, partitions, log>>
             ELSE /\ bucket' = BucketOf(args.s3_prefix)
                  /\ partitions' = found
                  /\ IF found = <<>>
                     THEN /\ log' = Append(log, LogLine("warning", "no_partitions",
                                      <<args.table_name, args.s3_prefix>>, <<>>))
                          /\ outcome' = GlueOutcome(self, "returned", "", 0, <<>>)
                          /\ pc' = "done"
                     ELSE /\ pc' = "get_table"
                          /\ UNCHANGED <<log, outcome>>
    /\ UNCHANGED <<running_queries, engine, next_id, owner, self, waitLocals,
                   sleeps, fetches, seen, batch, args, created, offset, fnVars, duckVars>>

\* get_table, and created = 0.  ok = FALSE: the lookup raises.
GetTable(ok) ==
    /\ pc = "get_table"
    /\ calls' = Append(calls, [api |-> "get_table",
                               DatabaseName |-> Database(self),
                               Name |-> args.table_name])
    /\ IF ~ok
       THEN /\ outcome' = GlueOutcome(self, "raised", "ClientError", None, <<>>)
            /\ pc' = "done"
       ELSE /\ pc' = "batch"
            /\ UNCHANGED outcome
    /\ created' = 0
    /\ offset' = 0
    /\ UNCHANGED <<running_queries, engine, next_id, owner, self, waitLocals,
                   sleeps, fetches, seen, batch, log, args, bucket, partitions,
                   fnVars, duckVars>>

\* One iteration of the loop over the batches, and the return after the
\* last.  ok = FALSE: batch_create_partition raises.  errors: the "Errors"
\* of its response.
BatchCreate(ok) ==
    /\ pc = "batch"
    /\ LET partition_inputs == PartitionInputs(partitions, bucket)
           chunk == BatchOf(partition_inputs, offset)
       IN \E errors \in (IF ok THEN ErrorChoices(chunk) ELSE {<<>>}) :
          /\ calls' = Append(calls,
                 [api |-> "batch_create_partition",
                  DatabaseName |-> Database(self),
                  TableName |-> args.table_name,
                  PartitionInputList |-> chunk, Errors |-> errors])
          /\ IF ~ok
             THEN /\ outcome' = GlueOutcome(self, "raised", "ClientError", None, <<>>)
                  /\ pc' = "done"
                  /\ UNCHANGED <<created, offset, log>>
             ELSE /\ created' = CreatedAfter(created, chunk, errors)
                  /\ offset' = offset + BatchSize
                  /\ pc' = AfterBatchPc(errors, offset, Len(partition_inputs))
                  /\ IF pc' = "done"
                     THEN /\ log' = log \o ErrorLog(errors)
                                    \o <<LogLine("info", "glue_created", <<>>,
                                                 <<created'>>)>>
                          /\ outcome' = GlueOutcome(self, "returned", "", created',
                                                    <<>>)
                     ELSE /\ log' = log \o ErrorLog(errors)
                          /\ UNCHANGED outcome
    /\ UNCHANGED <<running_queries, engine, next_id, owner, self, waitLocals,
                   sleeps, fetches, seen, batch, args, bucket, partitions,
                   fnVars, duckVars>>

\* Partition registration alone, over every listing and every response.
NextPartitions ==
    \/ \E r \in Runners, a \in GlueArgs : GlueStart(r, a)
    \/ \E ok \in BOOLEAN, names \in Listings : ListS3(ok, names)
    \/ \E ok \in BOOLEAN : GetTable(ok)
    \/ \E ok \in BOOLEAN : BatchCreate(ok)
    \/ Return

SpecPartitions == Init /\ [][NextPartitions]_vars

\* Submissions and partition registration on the same runners, with an
\* empty storage listing: the behaviours in which the arguments of a call
\* decide how far it gets.
NextArguments ==
    \/ \E r \in Runners, n \in Names, g \in {"query", "neither"}, a \in BOOLEAN :
          RunQuery(r, n, g, a)
    \/ \E r \in Runners, a \in GlueArgs : GlueStart(r, a)
    \/ \E ok \in BOOLEAN : ListS3(ok, <<>>)
    \/ Return

SpecArguments == Init /\ [][NextArguments]_vars

\* -------------------------------------------------------- query composition
\* An optional str argument that was not given (None).
NoText == "<None>"
\* bool(x), and (x or ""), of an optional str.
Truthy(x) == x # NoText /\ x # ""
OrEmpty(x) == IF Truthy(x) THEN x ELSE ""

\* Mutant: the composed text is not stripped.
AthenaCompose_NoOuterStrip(resolved_query, prefix, suffix) ==
    IF Truthy(prefix) \/ Truthy(suffix)
    THEN Strip(OrEmpty(prefix)) \o " (" \o resolved_query \o ") "
         \o Strip(OrEmpty(suffix))
    ELSE resolved_query
\* AthenaQueryRunner.run_query: "if prefix or suffix: ..."
AthenaCompose(resolved_query, prefix, suffix) ==
    IF Truthy(prefix) \/ Truthy(suffix)
    THEN Strip(Strip(OrEmpty(prefix)) \o " (" \o resolved_query \o ") "
               \o Strip(OrEmpty(suffix)))
    ELSE resolved_query
\* DuckDBQueries.run_query: "if prefix or suffix: ..."
DuckDBCompose(resolved_query, prefix, suffix) ==
    IF Truthy(prefix) \/ Truthy(suffix)
    THEN Strip(Strip(OrEmpty(prefix)) \o " (" \o resolved_query \o ") "
               \o Strip(OrEmpty(suffix)))
    ELSE resolved_query

\* The arguments of the model: literal queries, prefixes and suffixes, with
\* and without surrounding whitespace, empty, blank and not given.
Bodies == {"SELECT 1", " SELECT 1\n", "SELECT a\nFROM t", ""}
Prefixes == {NoText, "", "  ", "CREATE TABLE t AS", " CREATE TABLE t AS\n"}
Suffixes == {NoText, "", "\n", "WITH NO DATA", "\tLIMIT 1 "}
ComposeInputs ==
    [fn : {"compose"}, query : Bodies, prefix : Prefixes, suffix : Suffixes]
NotComposed == [athena |-> NoText, duckdb |-> NoText]

InitCompose == InitProgram /\ input \in ComposeInputs /\ result = NotComposed

\* The composition step of each runner's run_query on the arguments.
ComposeAthena ==
    /\ input.fn = "compose" /\ result.athena = NoText
    /\ result' = [result EXCEPT
                    !.athena = AthenaCompose(input.query, input.prefix, input.suffix)]
    /\ UNCHANGED <<running_queries, engine, next_id, owner, pc, self,
                   waitLocals, sleeps, fetches, seen, batch, log, outcome,
                   glueVars, duckVars, input>>
ComposeDuckDB ==
    /\ input.fn = "compose" /\ result.duckdb = NoText
    /\ result' = [result EXCEPT
                    !.duckdb = DuckDBCompose(input.query, input.prefix, input.suffix)]
    /\ UNCHANGED <<running_queries, engine, next_id, owner, pc, self,
                   waitLocals, sleeps, fetches, seen, batch, log, outcome,
                   glueVars, duckVars, input>>

NextCompose == ComposeAthena \/ ComposeDuckDB

SpecCompose == InitCompose /\ [][NextCompose]_vars

\* ----------------------------------------------------- load_query_from_path
\* query_name of a query_path: the text after the first ":", None without one.
QueryNameOf(query_path) ==
    IF ~Contains(query_path, ":") THEN NoText ELSE SplitOnce(query_path, ":")[2]

\* Mutant: a line that starts with a begin marker opens the block.
IsBegin_Prefix(stripped, query_name) ==
    \/ StartsWith(stripped, "-- BEGIN " \o query_name)
    \/ StartsWith(stripped, "--BEGIN " \o query_name)
\* stripped in begin_markers
IsBegin(stripped, query_name) ==
    stripped \in {"-- BEGIN " \o query_name, "--BEGIN " \o query_name}
\* stripped.startswith("--END") or stripped.startswith("-- END")
IsEnd(stripped) == StartsWith(stripped, "--END") \/ StartsWith(stripped, "-- END")

\* The for loop over the lines, from line k on: block_lines at its end.
RECURSIVE BlockLines(_, _, _, _)
BlockLines(lines, k, in_block, query_name) ==
    IF k > Len(lines) THEN <<>>
    ELSE IF IsBegin(Strip(lines[k]), query_name)
    THEN BlockLines(lines, k + 1, TRUE, query_name)
    ELSE IF in_block /\ IsEnd(Strip(lines[k]))
    THEN <<>>
    ELSE IF in_block
    THEN <<lines[k]>> \o BlockLines(lines, k + 1, in_block, query_name)
    ELSE BlockLines(lines, k + 1, in_block, query_name)

\* load_query_from_path(query_path) when the file is found (exists) with
\* the text content, or is not found.
LoadQuery(query_path, exists, content) ==
    LET query_name == QueryNameOf(query_path)
        query_sql == Strip(Join(BlockLines(Split(content, "\n"), 1, FALSE,
                                           query_name), "\n"))
    IN IF ~exists
       THEN [kind |-> "raised", exc |-> "FileNotFoundError", value |-> ""]
       ELSE IF ~Truthy(query_name)
       THEN [kind |-> "returned", exc |-> "", value |-> Strip(content)]
       ELSE IF query_sql = ""
       THEN [kind |-> "raised", exc |-> "KeyError", value |-> ""]
       ELSE [kind |-> "returned", exc |-> "", value |-> query_sql]

\* The files of the model: up to MaxLines lines, each a marker of one of
\* the forms, padded or not, or a line of SQL, or empty.
FileLines ==
    {"-- BEGIN a", " --BEGIN a ", "-- BEGIN ab", "--END", " -- END a",
     " x ", ""}
Contents(n) == { Join(ls, "\n") : ls \in SeqsUpTo(FileLines, n) \ {<<>>} }
LoadInputs ==
    [fn : {"load"}, query_path : {"q.sql:a"}, exists : {TRUE},
     content : Contents(MaxLines)]
    \cup [fn : {"load"}, query_path : {"q.sql:ab", "q.sql", "q.sql:"},
          exists : {TRUE}, content : Contents(2)]
    \cup [fn : {"load"}, query_path : {"q.sql:a", "q.sql"}, exists : {FALSE},
          content : {""}]

InitLoad == InitProgram /\ input \in LoadInputs /\ result = NoResult

Load ==
    /\ input.fn = "load" /\ result = NoResult
    /\ result' = LoadQuery(input.query_path, input.exists, input.content)
    /\ UNCHANGED <<running_queries, engine, next_id, owner, pc, self,
                   waitLocals, sleeps, fetches, seen, batch, log, outcome,
                   glueVars, duckVars, input>>

NextLoad == Load

SpecLoad == InitLoad /\ [][NextLoad]_vars

\* ------------------------------------------------ DuckDBQueries, scoped use
\* Mutant: close leaves the connection as it is.
ConnAfterClose_Keep(c) == c
\* close(): "if self.conn: self.conn.close()".  A connection object is
\* truthy, open or closed; closing a closed one changes nothing.
ConnAfterClose(c) == IF c # "none" THEN "closed" ELSE c
CloseLog(c) ==
    IF c # "none" THEN <<LogLine("info", "duckdb_closed", <<>>, <<>>)>> ELSE <<>>
\* What the caller of the with statement gets once __exit__ has returned
\* None: the exception of the block if there was one.
DuckOutcome(op, exc) ==
    Outcome(op, NoRunner, "", IF exc = "" THEN "returned" ELSE "raised", exc,
            None, <<>>, 0)

\* DuckDBQueries(...) and __enter__.  how: "ok"; "connect_raises"
\* (duckdb.connect fails); "setup_raises" (one of the statements executed
\* by __init__ on the new connection fails).
DuckConstruct(how) ==
    /\ pc = "idle"
    /\ conn' = IF how = "connect_raises" THEN "none" ELSE "open"
    /\ log' = IF how = "connect_raises" THEN <<>>
              ELSE <<LogLine("info", "duckdb_connected", <<>>, <<>>)>>
    /\ IF how = "ok"
       THEN /\ pc' = "with_body"
            /\ UNCHANGED outcome
       ELSE /\ pc' = "done"
            /\ outcome' = DuckOutcome("DuckDBQueries", "duckdb.Error")
    /\ UNCHANGED <<running_queries, engine, next_id, owner, self, waitLocals,
                   sleeps, fetches, seen, batch, glueVars, fnVars, pending>>

\* runner.run_query(...) inside the block.  given: as for the Athena
\* runner; ok = FALSE: conn.execute raises.  On a closed connection it
\* always raises.
DuckRunQuery(query_name, given, ok) ==
    /\ pc = "with_body"
    /\ Len(log) <= MaxDuckQueries
    /\ IF given = "neither"
       THEN /\ pending' = "ValueError"
            /\ pc' = "with_exit"
            /\ UNCHANGED log
       ELSE /\ log' = Append(log, LogLine("info", "duckdb_query",
                                          <<query_name>>, <<>>))
            /\ IF ok /\ conn = "open"
               THEN UNCHANGED <<pc, pending>>
               ELSE /\ pending' = "duckdb.Error"
                    /\ pc' = "with_exit"
    /\ UNCHANGED <<running_queries, engine, next_id, owner, self, waitLocals,
                   sleeps, fetches, seen, batch, outcome, glueVars, fnVars,
                   conn>>

\* runner.close() called by the body itself.
DuckClose ==
    /\ pc = "with_body"
    /\ conn = "open"
    /\ conn' = ConnAfterClose(conn)
    /\ log' = log \o CloseLog(conn)
    /\ UNCHANGED <<running_queries, engine, next_id, owner, pc, self,
                   waitLocals, sleeps, fetches, seen, batch, outcome, glueVars,
                   fnVars, pending>>

\* The end of the block is reached.
DuckLeave ==
    /\ pc = "with_body"
    /\ pc' = "with_exit"
    /\ UNCHANGED <<running_queries, engine, next_id, owner, self, waitLocals,
                   sleeps, fetches, seen, batch, log, outcome, glueVars,
                   fnVars, duckVars>>

\* __exit__: self.close(), and None returned, so that the exception of the
\* block goes on to the caller.
DuckExit ==
    /\ pc = "with_exit"
    /\ conn' = ConnAfterClose(conn)
    /\ log' = log \o CloseLog(conn)
    /\ outcome' = DuckOutcome("with DuckDBQueries", pending)
    /\ pc' = "done"
    /\ UNCHANGED <<running_queries, engine, next_id, owner, self, waitLocals,
                   sleeps, fetches, seen, batch, glueVars, fnVars, pending>>

\* The local runner in its with statement, as main uses it.
NextDuckDB ==
    \/ \E how \in {"ok", "connect_raises", "setup_raises"} : DuckConstruct(how)
    \/ \E n \in Names, g \in {"query", "neither"}, ok \in BOOLEAN :
          DuckRunQuery(n, g, ok)
    \/ DuckClose
    \/ DuckLeave
    \/ DuckExit
    \/ Return

SpecDuckDB == Init /\ [][NextDuckDB]_vars

\* ================================================================== claims
WaitDone == pc = "done" /\ outcome.op = "wait_for_queries"
\* The wait ended by its return or by the aggregate failure of its last line.
WaitCompleted ==
    WaitDone /\ (outcome.kind = "returned" \/ outcome.exc = "Exception")
Succeeded == DictKeys(completed_stats)
Failed == Range(failed_queries)
Occurrences(seq, x) == Cardinality({ i \in 1..Len(seq) : seq[i] = x })
\* The names whose execution, observed terminal in this wait, ended FAILED or
\* CANCELLED on the engine, and those that ended SUCCEEDED.
EngineFailed == { p[1] : p \in { q \in seen : engine[q[2]] \in TerminalFailure } }
EngineSucceeded == { p[1] : p \in { q \in seen : engine[q[2]] = "SUCCEEDED" } }
LogLinesOf(kind) == { i \in 1..Len(log) : log[i].kind = kind }

\* C1: whenever wait_for_queries returns normally or raises its aggregate
\* failure, running_queries is empty.
C1_TrackedEmptyAfterWait == WaitCompleted => running_queries = <<>>
\* A wait over two queries, one failed and one succeeded, has ended.
C1_Witness ==
    WaitCompleted /\ total_queries = 2 /\ Len(failed_queries) = 1
    /\ Len(completed_stats) = 1 /\ Len(sleeps) >= 1

C3_NoEarlyAbort ==
    (pc = "summary" \/ (WaitDone /\ outcome.exc = "Exception")) =>
        /\ running_queries = <<>>
        /\ Cardinality(seen) = total_queries
\* The aggregate failure is raised after a last sweep that polled only the
\* query that succeeded: the failure was observed in an earlier sweep.
C3_Witness ==
    /\ WaitDone /\ outcome.exc = "Exception"
    /\ total_queries = 2 /\ Len(failed_queries) = 1
    /\ Len(items) = 1 /\ items[1][1] \in Succeeded

C5_StatsGivenToCaller ==
    (WaitCompleted /\ completed_stats # <<>>) =>
        \/ outcome.retval # None
        \/ Succeeded \subseteq Range(outcome.msg)
\* C5 amended: the call returns None; on both exits the log holds, for each
\* succeeded query and for no other, one line with its execution time in
\* seconds and its data scanned in GiB, to two decimals.
C5_StatsLoggedNotReturned ==
    WaitCompleted =>
        /\ outcome.retval = None
        /\ \A n \in Succeeded :
              \E i \in LogLinesOf("stats") :
                  /\ log[i].names = <<n>>
                  /\ log[i].nums =
                        <<Fmt2(DictGet(completed_stats, n).execution_time_ms, 1000),
                          Fmt2(DictGet(completed_stats, n).data_scanned_bytes, GiB)>>
        /\ Cardinality(LogLinesOf("stats")) = Cardinality(Succeeded)
C5_Witness ==
    /\ WaitCompleted /\ outcome.kind = "raised"
    /\ \E i \in LogLinesOf("stats") : log[i].nums = <<150, 0>>

\* C6: an execution submitted through one runner is never polled by the
\* wait_for_queries of another runner.
C6_TrackedPerInstance ==
    pc = "for" => \A i \in 1..Len(items) : owner[items[i][2]] = self

\* C7: with nothing tracked, wait_for_queries returns without error, makes
\* no status fetch and no sleep, and never reaches the polling loop or the
\* summary.
C7_EmptyBatchReturnsAtOnce ==
    /\ (WaitDone /\ total_queries = 0) =>
          /\ outcome.kind = "returned"
          /\ fetches = 0
          /\ sleeps = <<>>
          /\ LogLinesOf("summary") = {}
    /\ pc \in {"while", "for", "after_sweep", "summary"} => total_queries > 0
\* An empty wait after earlier submissions were drained by an earlier wait.
C7_Witness ==
    WaitDone /\ total_queries = 0 /\ next_id > 1 /\ running_queries = <<>>

\* C8 as stated: what the caller gets for an empty batch differs from what
\* it gets for a non-empty batch in which every query succeeded.
C8_EmptyBatchDistinct ==
    (WaitDone /\ total_queries = 0) => outcome # SummaryOutcome(self, <<>>)
\* C8 amended: a wait that returns gives None in both cases; the cases differ
\* in the log only: the warning and no summary for the empty batch, the
\* summary and no warning for the non-empty one.
C8_SameReturnDistinctLog ==
    (WaitDone /\ outcome.kind = "returned") =>
        /\ outcome.retval = None
        /\ outcome.msg = <<>>
        /\ IF total_queries = 0
           THEN /\ LogLinesOf("no_queries") # {}
                /\ LogLinesOf("summary") = {}
           ELSE /\ LogLinesOf("no_queries") = {}
                /\ LogLinesOf("summary") # {}
C8_Witness ==
    WaitDone /\ outcome.kind = "returned" /\ total_queries = 0
    /\ log = <<LogLine("warning", "no_queries", <<>>, <<>>)>>

\* C9: the sleeps of one wait are 1, 1.5, 2.25, 3.375, 5.0625, 7.59375, 10
\* and then 10 for ever: non-decreasing and never above 10.
ClaimedSleeps ==
    <<Unit, (3 * Unit) \div 2, (9 * Unit) \div 4, (27 * Unit) \div 8,
      (81 * Unit) \div 16, (243 * Unit) \div 32, 10 * Unit>>
C9_BackoffSequence ==
    \A k \in 1..Len(sleeps) :
        /\ sleeps[k] = IF k <= 7 THEN ClaimedSleeps[k] ELSE 10 * Unit
        /\ sleeps[k] <= 10 * Unit
        /\ k > 1 => sleeps[k - 1] <= sleeps[k]
C9_Witness == Len(sleeps) >= 8 /\ sleeps[7] = 10 * Unit /\ sleeps[8] = 10 * Unit

\* C10: a rejected submission raises after exactly one submit call and
\* leaves running_queries and the engine as they were; an accepted one maps
\* the query name to the execution id returned.
C10_RunQueryFrame ==
    [][ (pc = "idle" /\ pc' = "done" /\ outcome'.op = "run_query") =>
          /\ outcome'.exc = "ClientError" =>
                /\ outcome'.kind = "raised"
                /\ outcome'.submits = 1
                /\ running_queries' = running_queries
                /\ next_id' = next_id
          /\ outcome'.kind = "returned" =>
                /\ outcome'.submits = 1
                /\ DictHas(running_queries', outcome'.name)
                /\ DictGet(running_queries', outcome'.name) = outcome'.retval
                /\ outcome'.retval = next_id
                /\ \A n \in DictKeys(running_queries) \ {outcome'.name} :
                      /\ DictHas(running_queries', n)
                      /\ DictGet(running_queries', n) = DictGet(running_queries, n)
      ]_vars
\* A rejected re-submission of a name that is tracked.
C10_Witness ==
    /\ pc = "done" /\ outcome.op = "run_query"
    /\ outcome.exc = "ClientError" /\ DictHas(running_queries, outcome.name)

\* What the engine reported for one statistic: its value, or nothing at all
\* when the response had no "Statistics" or the statistics had not that field.
EngineReported(stats, field) ==
    IF ~stats.present THEN {}
    ELSE IF field = "time"
    THEN {stats.EngineExecutionTimeInMillis} \ {Absent}
    ELSE {stats.DataScannedInBytes} \ {Absent}
\* The value the claim expects in the summary for that statistic.
ExpectedStat(stats, field) ==
    IF EngineReported(stats, field) = {} THEN 0
    ELSE CHOOSE v \in EngineReported(stats, field) : TRUE
\* C12: when a wait ends by its return or its aggregate failure, every query
\* it observed SUCCEEDED has exactly one entry in the collected statistics
\* and exactly one statistics line in the summary, holding the execution
\* time and the bytes scanned that the engine reported, zero for a value the
\* engine left out, and both values are non-negative.
C12_SucceededStatsOnce ==
    WaitCompleted =>
        \A p \in { q \in seen : engine[q[2]] = "SUCCEEDED" } :
            /\ Cardinality({ i \in 1..Len(completed_stats) :
                               completed_stats[i][1] = p[1] }) = 1
            /\ DictGet(completed_stats, p[1]).execution_time_ms
                  = ExpectedStat(p[3], "time")
            /\ DictGet(completed_stats, p[1]).data_scanned_bytes
                  = ExpectedStat(p[3], "bytes")
            /\ DictGet(completed_stats, p[1]).execution_time_ms >= 0
            /\ DictGet(completed_stats, p[1]).data_scanned_bytes >= 0
            /\ Cardinality({ i \in LogLinesOf("stats") :
                               log[i].names = <<p[1]>> }) = 1
            /\ \E i \in LogLinesOf("stats") :
                  /\ log[i].names = <<p[1]>>
                  /\ log[i].nums = <<Fmt2(ExpectedStat(p[3], "time"), 1000),
                                     Fmt2(ExpectedStat(p[3], "bytes"), GiB)>>
\* A wait saw two executions succeed: one whose response had no statistics,
\* one whose statistics had the time but not the bytes scanned.
C12_Witness ==
    /\ WaitCompleted
    /\ \E p, q \in seen :
          /\ engine[p[2]] = "SUCCEEDED" /\ engine[q[2]] = "SUCCEEDED"
          /\ ~p[3].present
          /\ q[3].present /\ q[3].DataScannedInBytes = Absent
          /\ q[3].EngineExecutionTimeInMillis > 0

MalformedUri(u) ==
    \/ Len(u) < 5
    \/ SubSeq(u, 1, 5) # "s3://"
    \/ \A k \in 6..Len(u) : Char(u, k) # "/"
\* C11: a call of run_query that raises the invalid-arguments error submits
\* nothing and leaves the tracked set and the engine as they were; a call of
\* add_partitions_with_glue with a malformed storage URI raises the
\* invalid-input error in its first step, and whenever it raises that error
\* no storage listing and no catalog call has been made.
C11_InvalidInputBeforeRemote ==
    [][/\ (pc = "idle" /\ outcome'.op = "run_query"
              /\ outcome'.exc = "ValueError") =>
            /\ pc' = "done" /\ outcome'.kind = "raised"
            /\ outcome'.submits = 0
            /\ running_queries' = running_queries
            /\ engine' = engine /\ next_id' = next_id
            /\ calls' = <<>>
       /\ (pc = "idle" /\ args' # NoArgs /\ MalformedUri(args'.s3_prefix)) =>
            /\ pc' = "done" /\ outcome'.kind = "raised"
            /\ outcome'.op = "add_partitions_with_glue"
            /\ outcome'.exc = "ValueError"
       /\ (outcome'.op = "add_partitions_with_glue"
              /\ outcome'.exc = "ValueError") =>
            /\ pc = "idle"
            /\ calls' = <<>>
            /\ running_queries' = running_queries /\ engine' = engine
      ]_vars
\* A registration was refused for its URI while a query is tracked.
C11_Witness ==
    /\ pc = "done" /\ outcome.op = "add_partitions_with_glue"
    /\ outcome.exc = "ValueError" /\ args.s3_prefix = "bucket/path/"
    /\ running_queries # <<>>

\* The registration ended by returning its count.
GlueReturned ==
    /\ pc = "done" /\ outcome.op = "add_partitions_with_glue"
    /\ outcome.kind = "returned"
\* The calls of one API made by the current call, in order.
CallsOf(api) == SelectSeq(calls, LAMBDA c : c.api = api)
BatchCalls == CallsOf("batch_create_partition")
RECURSIVE Submitted(_)
Submitted(bs) ==
    IF bs = <<>> THEN <<>> ELSE Head(bs).PartitionInputList \o Submitted(Tail(bs))
RECURSIVE SumCreated(_)
SumCreated(bs) ==
    IF bs = <<>> THEN 0
    ELSE Len(Head(bs).PartitionInputList) - Len(Head(bs).Errors)
         + SumCreated(Tail(bs))
\* C14: when add_partitions_with_glue returns, the batches it submitted hold
\* between 1 and 100 partitions each and, laid end to end, are the
\* discovered partitions in their order, each once; the value returned is
\* the sum over the batches of the batch size less the errors reported for
\* it; with no partition discovered it returns 0 and has made no call to the
\* catalog.
C14_BatchesOfHundred ==
    GlueReturned =>
        /\ \A k \in 1..Len(BatchCalls) :
              /\ Len(BatchCalls[k].PartitionInputList) >= 1
              /\ Len(BatchCalls[k].PartitionInputList) <= 100
        /\ Submitted(BatchCalls) = PartitionInputs(partitions, bucket)
        /\ outcome.retval = SumCreated(BatchCalls)
        /\ partitions = <<>> =>
              /\ outcome.retval = 0
              /\ \A k \in 1..Len(calls) : calls[k].api = "list_objects_v2"
\* A registration of more than two full batches returned with some
\* partitions created and some not.
C14_Witness ==
    /\ GlueReturned
    /\ Len(partitions) = MaxBatches * BatchSize + 1
    /\ Len(BatchCalls) = MaxBatches + 1
    /\ outcome.retval > 0 /\ outcome.retval < Len(partitions)

\* C15: a batch whose response reports errors never ends the call by an
\* exception and never ends the loop early: the counter grows by the size
\* of the batch less the number of errors reported, whatever their kind, and
\* the next step is the next batch if partitions remain, and the return of
\* the count if none does; on return every partition has been submitted.
C15_PartitionErrorsDoNotStop ==
    [][(pc = "batch" /\ calls' # calls /\ calls'[Len(calls')].Errors # <<>>) =>
          LET this == calls'[Len(calls')]
              remaining == Len(partitions) - Len(Submitted(CallsOf("batch_create_partition")'))
          IN /\ outcome'.kind # "raised"
             /\ created' = created + Len(this.PartitionInputList) - Len(this.Errors)
             /\ remaining >= 0
             /\ remaining > 0 => pc' = "batch"
             /\ remaining = 0 =>
                   /\ pc' = "done" /\ outcome'.kind = "returned"
                   /\ outcome'.retval = created'
      ]_vars
\* The first of three batches reported an already existing partition and
\* an error of another kind, and the call went on to return.
C15_Witness ==
    /\ GlueReturned
    /\ Len(BatchCalls) = MaxBatches + 1
    /\ Len(BatchCalls[1].Errors) = 2
    /\ \E k \in 1..2 : Contains(MessageOf(BatchCalls[1].Errors[k]), "AlreadyExists")
    /\ \E k \in 1..2 : MessageOf(BatchCalls[1].Errors[k]) = "Unknown"
    /\ outcome.retval = Len(partitions) - 2

\* A prefix of the form s3://bucket/path/ (the last "/" may be missing): the
\* scheme, a "/" after it, and past that "/" at least one path segment.
HasPathSegment(u) ==
    /\ Len(u) > 5 /\ SubSeq(u, 1, 5) = "s3://"
    /\ \E k \in 6..Len(u) :
          /\ Char(u, k) = "/"
          /\ \E m \in (k + 1)..Len(u) : Char(u, m) # "/"
\* C16: a call of add_partitions_with_glue whose prefix has not the form
\* s3://bucket/path/, s3://bucket and s3://bucket/ among them, has ended with
\* the invalid-input error.
C16_PrefixNeedsPathSegment ==
    (pc # "idle" /\ args # NoArgs /\ ~HasPathSegment(args.s3_prefix)) =>
        /\ pc = "done"
        /\ outcome.exc = "ValueError"

\* The child names the claim keeps for a key: <key>=<value>; and the value.
NamedByKey(name, partition_key) ==
    Contains(name, "=") /\ SplitOnce(name, "=")[1] = partition_key
ValueIn(name) == SplitOnce(name, "=")[2]
\* The listing call of the current registration, once it has been made.
Listed == CallsOf("list_objects_v2")
\* C17: once the listing has answered, the partitions discovered are, in the
\* order of the listing, one pair for each child named <partition_key>=<value>
\* and none for any other child: the value, and the child's location under
\* the prefix; for the children ds=2024-01-01/, ds=2024-01-02/, other/ and
\* the key ds the values are 2024-01-01 and 2024-01-02.
C17_DiscoveryKeepsKeyed ==
    Listed # <<>> =>
        LET children == Listed[1].children
            keyed == SelectSeq(children,
                               LAMBDA n : NamedByKey(n, args.partition_key))
        IN /\ Len(partitions) = Len(keyed)
           /\ \A k \in 1..Len(keyed) :
                 /\ partitions[k][1] = ValueIn(keyed[k])
                 /\ partitions[k][2] = Listed[1].Prefix \o keyed[k] \o "/"
           /\ (children = <<"ds=2024-01-01", "ds=2024-01-02", "other">>
                  /\ args.partition_key = "ds") =>
                 [k \in 1..Len(partitions) |-> partitions[k][1]]
                    = <<"2024-01-01", "2024-01-02">>
\* The listing of the example has answered and the lookup of the table is
\* next.
C17_Witness ==
    /\ pc = "get_table"
    /\ Listed # <<>>
    /\ Listed[1].children = <<"ds=2024-01-01", "ds=2024-01-02", "other">>
    /\ args.partition_key = "ds"
    /\ Len(partitions) = 2

\* C18: the table lookup and every batch of a registration name the database
\* given as argument, and the runner's own database when none is given.
C18_DatabaseArgumentTargets ==
    \A k \in 1..Len(calls) :
        calls[k].api \in {"get_table", "batch_create_partition"} =>
            calls[k].DatabaseName =
                IF args.database # NoDatabase THEN args.database
                ELSE Database(self)

\* The segment a prefix or suffix contributes: its text without surrounding
\* whitespace, nothing when it was not given.
Segment(x) == IF x = NoText THEN "" ELSE Strip(x)
\* One blank before / after the parenthesised body, next to a segment that
\* is not empty.
Before(seg) == IF seg = "" THEN "" ELSE seg \o " "
After(seg) == IF seg = "" THEN "" ELSE " " \o seg
Composed == { v \in {result.athena, result.duckdb} : v # NoText }
\* C19 as stated: both runners give "<prefix> (<body>) <suffix>" with the
\* three segments trimmed and an absent one left out, and the body itself
\* when neither prefix nor suffix is present.
C19_ThreeSegmentsTrimmed ==
    input.fn = "compose" =>
        \A v \in Composed :
            v = IF Segment(input.prefix) = "" /\ Segment(input.suffix) = ""
                THEN input.query
                ELSE Before(Segment(input.prefix))
                     \o "(" \o Strip(input.query) \o ")"
                     \o After(Segment(input.suffix))
\* C19 amended: when the prefix or the suffix is a non-empty string, also a
\* blank one, both runners give the trimmed prefix, the body as it is
\* between parentheses, and the trimmed suffix, with one blank next to each
\* segment that is not empty; otherwise they give the body as it is.
C19_PrefixSuffixTrimmedBodyKept ==
    input.fn = "compose" =>
        /\ \A v \in Composed :
              v = IF input.prefix \in {NoText, ""} /\ input.suffix \in {NoText, ""}
                  THEN input.query
                  ELSE Before(Segment(input.prefix))
                       \o "(" \o input.query \o ")"
                       \o After(Segment(input.suffix))
        /\ (input.query = "SELECT 1" /\ input.prefix = "CREATE TABLE t AS"
               /\ input.suffix = NoText) =>
              Composed \subseteq {"CREATE TABLE t AS (SELECT 1)"}
\* Both runners composed the example, and gave the same text.
C19_Witness ==
    /\ input.fn = "compose"
    /\ input.query = "SELECT 1" /\ input.prefix = "CREATE TABLE t AS"
    /\ input.suffix = NoText
    /\ result.athena = "CREATE TABLE t AS (SELECT 1)"
    /\ result.duckdb = result.athena

\* The lines of the file read, the name asked for, and the lines whose
\* trimmed content is a begin marker for exactly that name / an end marker.
FileLinesRead == Split(input.content, "\n")
NameAsked == SplitOnce(input.query_path, ":")[2]
BeginAt(lines, name) ==
    { k \in 1..Len(lines) :
        LET t == Strip(lines[k])
        IN t = "-- BEGIN " \o name \/ t = "--BEGIN " \o name }
EndAt(lines) ==
    { k \in 1..Len(lines) :
        LET t == Strip(lines[k])
        IN \E m \in {5, 6} :
              Len(t) >= m /\ SubSeq(t, 1, m) \in {"--END", "-- END"} }
Least(S) == CHOOSE b \in S : \A c \in S : b <= c
\* The first end marker after line b; past the last line when there is none.
NextEnd(lines, b) ==
    LET after == { e \in EndAt(lines) : e > b }
    IN IF after = {} THEN Len(lines) + 1 ELSE Least(after)
\* The lines of positions ks, in their order, joined and trimmed.
TextOf(lines, ks) ==
    LET kept == SelectSeq([k \in 1..Len(lines) |-> <<k, lines[k]>>],
                          LAMBDA p : p[1] \in ks)
    IN Strip(Join([k \in 1..Len(kept) |-> kept[k][2]], "\n"))
NamedBlockAsked ==
    /\ input.fn = "load" /\ result # NoResult /\ input.exists
    /\ Contains(input.query_path, ":") /\ NameAsked # ""
BlockNotFound == result.kind = "raised" /\ result.exc = "KeyError"
ReturnedOrNotFound(text) ==
    IF text = "" THEN BlockNotFound
    ELSE result.kind = "returned" /\ result.value = text
\* C20 as stated: for file:name the result is, trimmed, every line between
\* the first begin marker of that exact name and the next end marker, and
\* the block-not-found error when no begin marker matches or that text is
\* empty.
C20_ExactlyLinesBetween ==
    NamedBlockAsked =>
        LET lines == FileLinesRead
            begins == BeginAt(lines, NameAsked)
        IN IF begins = {} THEN BlockNotFound
           ELSE LET b == Least(begins)
                    e == NextEnd(lines, b)
                IN ReturnedOrNotFound(TextOf(lines, (b + 1)..(e - 1)))
\* C20 amended: the same, with the lines between the two markers that are
\* themselves begin markers of that name left out, and with the block
\* running to the end of the file when no end marker follows.
C20_LinesBetweenLessMarkers ==
    NamedBlockAsked =>
        LET lines == FileLinesRead
            begins == BeginAt(lines, NameAsked)
        IN IF begins = {} THEN BlockNotFound
           ELSE LET b == Least(begins)
                    e == NextEnd(lines, b)
                IN ReturnedOrNotFound(
                       TextOf(lines, ((b + 1)..(e - 1)) \ begins))
\* A block was returned from a file in which a marker for a longer name
\* precedes the padded marker of the name asked, and the end marker carries
\* the name.
C20_Witness ==
    /\ NamedBlockAsked /\ NameAsked = "a"
    /\ FileLinesRead = <<"-- BEGIN ab", " --BEGIN a ", " x ", " -- END a">>
    /\ result.kind = "returned" /\ result.value = "x"

\* C21: once the with-block of a DuckDBQueries instance has been left, by
\* its end or by an exception of a query in it, the connection is closed,
\* and the caller gets that exception if there was one and a normal
\* completion if there was none.
C21_ConnectionReleased ==
    (pc = "done" /\ outcome.op = "with DuckDBQueries") =>
        /\ conn = "closed"
        /\ outcome.kind = (IF pending = "" THEN "returned" ELSE "raised")
        /\ outcome.exc = pending
\* The block was left by the failure of its second query.
C21_Witness ==
    /\ pc = "done" /\ outcome.op = "with DuckDBQueries"
    /\ pending = "duckdb.Error" /\ outcome.kind = "raised"
    /\ Cardinality(LogLinesOf("duckdb_query")) = 2
    /\ Cardinality(LogLinesOf("duckdb_closed")) = 1

\* A step of the for loop whose status fetch answered.
FetchAnswered ==
    pc = "for" /\ fetches' = fetches + 1 /\ outcome' = outcome
\* The execution was observed in a terminal state by an earlier fetch of
\* this wait, or left the tracked set before this wait began.
ObservedOrGone(id) ==
    engine[id] = "RELEASED" \/ \E p \in seen : p[2] = id
\* C22: a fetch that finds an execution in a terminal state removes it from
\* the tracked set in that same step, and no fetch, in this wait or a later
\* one, asks about an execution that was found terminal before.
C22_NeverPolledAgain ==
    [][FetchAnswered =>
          LET id == items[idx][2]
          IN /\ ~ObservedOrGone(id)
             /\ engine[id] \in Terminal =>
                   /\ id \notin TrackedIds(running_queries')
                   /\ \E p \in seen' : p[2] = id
             /\ \A p \in seen : p[2] \notin TrackedIds(running_queries)
      ]_vars
\* The second sweep of a wait over two executions polls only the one that
\* was not found terminal in the first.
C22_Witness ==
    /\ pc = "after_sweep" /\ total_queries = 2 /\ Len(sleeps) = 1
    /\ fetches = 3 /\ Len(items) = 1
    /\ Cardinality(seen) = 2
    /\ running_queries = <<>>

\* C23: a sweep starts from a snapshot of the whole tracked set and fetches
\* each of its executions once, in turn, the decision about the sleep
\* coming after the last; an execution found in a non-terminal state stays
\* tracked under its name and id; after the sweep the loop sleeps exactly
\* when something is still tracked.
C23_SweepThenSleepIfTracked ==
    [][/\ (pc = "while" /\ pc' = "for") =>
             /\ items' = running_queries /\ idx' = 1
             /\ Cardinality({ items'[k][2] : k \in 1..Len(items') })
                   = Len(items')
       /\ FetchAnswered =>
             /\ idx <= Len(items) /\ idx' = idx + 1 /\ items' = items
             /\ DictHas(running_queries, items[idx][1])
             /\ DictGet(running_queries, items[idx][1]) = items[idx][2]
             /\ engine[items[idx][2]] \notin Terminal =>
                   running_queries' = running_queries
             /\ (pc' = "after_sweep") = (idx = Len(items))
             /\ pc' \in {"for", "after_sweep"}
       /\ (pc # "after_sweep" /\ pc' = "after_sweep") =>
             /\ pc = "for" /\ idx' = Len(items) + 1
             /\ Len(sleeps) = 0 => fetches' = total_queries
       /\ (pc = "after_sweep" /\ pc' # pc) =>
             /\ (sleeps' # sleeps) = (running_queries # <<>>)
             /\ running_queries # <<>> =>
                   sleeps' = Append(sleeps, interval)
             /\ running_queries' = running_queries
       /\ (sleeps' # sleeps /\ sleeps' # <<>>) => pc = "after_sweep"
      ]_vars
\* The sweep that emptied the tracked set is over, with one sleep made
\* after the sweep before it.
C23_Witness ==
    /\ pc = "while" /\ running_queries = <<>> /\ total_queries = 2
    /\ Len(sleeps) = 1 /\ fetches = 4 /\ idx = 3


\* C24: a wait whose status fetches are answered ends, by its return or by
\* the aggregate failure, if no tracked execution stays non-terminal for
\* ever; and a wait in which a tracked execution never becomes terminal
\* never ends: nothing but the emptying of running_queries leaves the loop.
InWait == pc \in {"while", "for", "after_sweep", "summary"}
StillRunning(e) == e \in TrackedIds(running_queries) /\ engine[e] \notin Terminal
C24_EndsIffAllTerminal ==
    /\ (\A e \in ExecIds : []<>(~StillRunning(e))) => (InWait ~> WaitCompleted)
    /\ \A e \in ExecIds :
          []((InWait /\ StillRunning(e)) =>
                ([](engine[e] \notin Terminal) => [](~WaitDone)))
\* A wait that slept until the interval reached its cap, and then ended.
C24_Witness ==
    /\ WaitCompleted
    /\ interval = max_interval
    /\ total_queries = 2
    /\ Failed # {}


\* C25: running_queries holds one execution per name.  An accepted submission
\* maps its name to the new execution id; if the name was tracked, the entry
\* is overwritten in place and the former id is tracked no more.  An id
\* enters running_queries only as the fresh id of a submission, so an id
\* once overwritten never comes back; each status fetch of a wait asks for
\* the id its name is mapped to, and the total of the wait counts the names.
C25_OneExecutionPerName ==
    [][/\ \A n \in DictKeys(running_queries') :
             Cardinality({ k \in 1..Len(running_queries') :
                             running_queries'[k][1] = n }) = 1
       /\ TrackedIds(running_queries') \ TrackedIds(running_queries)
             \subseteq {next_id}
       /\ TrackedIds(running_queries') \subseteq 1..(next_id' - 1)
       /\ next_id' >= next_id
       /\ (pc = "idle" /\ outcome'.op = "run_query" /\ outcome'.kind = "returned") =>
             LET n == outcome'.name
             IN /\ DictGet(running_queries', n) = next_id
                /\ next_id' = next_id + 1
                /\ DictKeys(running_queries') = DictKeys(running_queries) \cup {n}
                /\ DictHas(running_queries, n) =>
                      /\ Len(running_queries') = Len(running_queries)
                      /\ DictGet(running_queries, n)
                            \notin TrackedIds(running_queries')
       /\ (pc = "idle" /\ pc' = "while") =>
             total_queries' = Cardinality(DictKeys(running_queries))
       /\ (pc = "for" /\ fetches' = fetches + 1) =>
             /\ DictHas(running_queries, items[idx][1])
             /\ DictGet(running_queries, items[idx][1]) = items[idx][2]
             /\ Cardinality({ k \in 1..Len(items) :
                                items[k][1] = items[idx][1] }) = 1
      ]_vars
\* The name "a" submitted twice: the second execution is tracked, the first,
\* still known to the engine, is not.
C25_Witness ==
    /\ pc = "done" /\ outcome.op = "run_query" /\ outcome.kind = "returned"
    /\ outcome.name = "a" /\ outcome.retval = 2
    /\ running_queries = << <<"a", 2>> >>
    /\ engine[1] \in {"QUEUED", "RUNNING"} \cup Terminal


\* C26: the error of a status fetch ends the wait in that very step, as a
\* ClientError and with no summary; running_queries is left as it is, so it
\* holds the execution whose fetch raised, those the sweep had not reached,
\* and none of the executions this wait observed terminal; the return to the
\* caller keeps it.  Every wait starts with no failed name, and an aggregate
\* failure counts the failures observed by the wait that raises it, no other.
FetchRaised == pc = "for" /\ outcome' # outcome
SeenIds == { p[2] : p \in seen }
C26_FetchErrorPropagates ==
    [][/\ FetchRaised =>
             /\ pc' = "done"
             /\ outcome'.op = "wait_for_queries"
             /\ outcome'.kind = "raised" /\ outcome'.exc = "ClientError"
             /\ outcome'.msg = <<>>
             /\ log' = log
             /\ running_queries' = running_queries
             /\ \A k \in idx..Len(items) :
                   /\ DictHas(running_queries', items[k][1])
                   /\ DictGet(running_queries', items[k][1]) = items[k][2]
             /\ TrackedIds(running_queries') \cap SeenIds = {}
             /\ Len(running_queries') + Cardinality(seen) = total_queries
       /\ (pc = "done" /\ pc' = "idle") =>
             /\ running_queries' = running_queries
             /\ failed_queries' = <<>>
       /\ (pc = "idle" /\ pc' = "while") =>
             /\ failed_queries' = <<>>
             /\ total_queries' = Len(running_queries)
       /\ (pc = "summary" /\ pc' = "done" /\ outcome'.exc = "Exception") =>
             /\ Range(failed_queries) = EngineFailed
             /\ outcome'.msg[1] = ToString(Cardinality(EngineFailed))
             /\ SeenIds \cap TrackedIds(running_queries) = {}
      ]_vars
\* A fetch raised in the second sweep of a wait of two executions, after the
\* wait had observed the failure of one of them.
C26_Witness ==
    /\ WaitDone /\ outcome.exc = "ClientError"
    /\ total_queries = 2
    /\ Len(failed_queries) = 1
    /\ Len(running_queries) = 1
    /\ Len(sleeps) = 1
    /\ running_queries[1][1] = outcome.name


\* C27: all through the polling of a wait, the names still tracked, the names
\* with recorded statistics and the failed names add up to the total taken at
\* its start, no name being counted twice; so in the summary the succeeded
\* count, total minus failed, is the number of names with statistics, and
\* succeeded plus failed is the total.  No step of a wait adds a name to
\* running_queries.
C27_SummaryCountsAddUp ==
    [][/\ InWait =>
             /\ Len(running_queries) + Len(completed_stats) + Len(failed_queries)
                   = total_queries
             /\ Cardinality(Succeeded) = Len(completed_stats)
             /\ Cardinality(Failed) = Len(failed_queries)
             /\ Succeeded \cap Failed = {}
             /\ DictKeys(running_queries') \subseteq DictKeys(running_queries)
             /\ Len(running_queries') <= Len(running_queries)
             /\ total_queries' \in {total_queries, 0}
       /\ (pc = "summary" /\ pc' = "done") =>
             \A i \in { k \in 1..Len(log') : log'[k].kind = "summary" } :
                 /\ log'[i].nums[1] = total_queries
                 /\ log'[i].nums[2] = total_queries - Len(failed_queries)
                 /\ log'[i].nums[2] = Cardinality(Succeeded)
                 /\ log'[i].nums[3] = Cardinality(Failed)
                 /\ log'[i].nums[2] + log'[i].nums[3] = log'[i].nums[1]
                 /\ Cardinality({ k \in 1..Len(log') : log'[k].kind = "stats" })
                       = log'[i].nums[2]
      ]_vars
\* The summary of a wait of two queries: one succeeded in the first sweep with
\* no statistics in the response, one was cancelled in the second.
C27_Witness ==
    /\ WaitCompleted /\ total_queries = 2
    /\ Len(completed_stats) = 1 /\ Len(failed_queries) = 1
    /\ Len(sleeps) = 1
    /\ \E p \in seen : engine[p[2]] = "CANCELLED"
    /\ \E p \in seen : engine[p[2]] = "SUCCEEDED" /\ ~p[3].present
    /\ \E i \in LogLinesOf("summary") : log[i].nums = <<2, 1, 1>>

====
